---- MODULE Spec2Model ----
(***************************************************************************)
(* A model of solver.py: the resource/action data model (Resources,       *)
(* Action, GameState, GameSequence), the puzzle definition (Game), the    *)
(* round advancer and the memoized branch-and-bound search                *)
(* Game.find_min_steps, executed one step of backtrack at a time.         *)
(*                                                                        *)
(* Python objects that the code shares by reference live in two heaps:    *)
(* heap holds the dict of every Resources object, objs holds every        *)
(* GameSequence object (a reference to its Resources, its move counter    *)
(* and its action list).  A dict is a function from kinds to integers; a  *)
(* lookup of a kind outside its domain is Python's KeyError.              *)
(***************************************************************************)
EXTENDS Integers, Sequences, FiniteSets, TLC

VARIABLES
    puzzle,         \* the arguments Game(...) was constructed from
    game,           \* the Game object
    mode,           \* whether line 262 consults memo: it does, in the code
    heap,           \* Resources objects: reference -> lookup dict
    lists,          \* list objects: reference -> the elements, in order
    objs,           \* GameSequence objects: reference -> [resources, moves,
                    \*   sequence], resources and sequence being references
    stack,          \* the backtrack activations, innermost last
    memo,           \* find_min_steps' memo dict
    best_solution,  \* find_min_steps' nonlocal best_solution
    result,         \* what backtrack returned to find_min_steps
    pc,             \* "init", "running", "returned", the exception raised, ...
    last,           \* the last operation applied directly to an object
    prev            \* the outcome of the previous find_min_steps run

vars == <<puzzle, game, mode, heap, lists, objs, stack, memo, best_solution, result, pc, last, prev>>

----------------------------------------------------------------------------
(* Bounds of the puzzles explored. *)

MaxRounds == 2

MaxPerRound == 2

MaxActions == 2

MaxStart == 2

MaxTarget == 2

MaxOps == 2

----------------------------------------------------------------------------
(* Python's None; object references start at 1. *)
None == 0

(* A kind is whatever key a dict has: Resources.parse takes the last       *)
(* character of a token (line 65), and a caller may build a Resources on    *)
(* any dict.  A key is a str, given as the tuple of its code points: 'P' is *)
(* <<80>>, 'AB' is <<65, 66>>.  The kinds the file names, and those of the  *)
(* puzzles explored:                                                        *)
Kind_A == <<65>>

Kind_C == <<67>>

Kind_D == <<68>>

Kind_H == <<72>>

Kind_N == <<78>>

Kind_P == <<80>>

Kind_R == <<82>>

(* s < t on str: the first place where they differ decides by code point,   *)
(* and a proper prefix comes first                                          *)
StrLess(s, t) ==
    \E i \in 1..Len(t) :
        /\ \A j \in 1..(i - 1) : j <= Len(s) /\ s[j] = t[j]
        /\ (i > Len(s) \/ s[i] < t[i])

Max(S) == CHOOSE x \in S : \A y \in S : y <= x

(* A dict is a function from its keys to their values.  Dict is the dict a  *)
(* display or a comprehension makes of the items <<key, value>> it is given *)
(* in turn (lines 65, 83, 84): of two items with one key the later gives    *)
(* the value.                                                               *)
Dict(items) ==
    [k \in {items[i][1] : i \in DOMAIN items} |->
        items[Max({i \in DOMAIN items : items[i][1] = k})][2]]

(* The order in which that dict lists its keys: each key where it first     *)
(* came in.  A function does not keep it; it is kept beside the dict where  *)
(* the code iterates a dict with effects between the iterations, for the    *)
(* cost and the reward of an action (lines 119-122, 208-213).               *)
KeyOrder(items) ==
    LET firsts == {i \in DOMAIN items : \A j \in 1..(i - 1) : items[j][1] # items[i][1]}
    IN  [n \in 1..Cardinality(firsts) |->
            items[CHOOSE i \in firsts : Cardinality({j \in firsts : j < i}) = n - 1][1]]

(* Python's a % b for b # 0: the result has the sign of b *)
PyMod(a, b) == IF b > 0 THEN a % b ELSE -((-a) % (-b))

RECURSIVE SumValues(_)
(* sum(d.values()) *)
SumValues(d) ==
    IF DOMAIN d = {} THEN 0
    ELSE LET k == CHOOSE x \in DOMAIN d : TRUE
         IN  d[k] + SumValues([x \in DOMAIN d \ {k} |-> d[x]])

(* Resources.exclude *)
exclude(d, resource_name) == [k \in DOMAIN d \ {resource_name} |-> d[k]]

(* dict.get(key, default) *)
get(d, key, default) == IF key \in DOMAIN d THEN d[key] ELSE default

(* An Action object holds two Resources objects (lines 70-71): cost and     *)
(* reward are their references.  ActionOf reads the two dicts off the heap  *)
(* H: what the action costs and rewards, as the methods that are handed     *)
(* the action see it through action.cost.lookup and action.reward.lookup.   *)
ActionOf(H, action) ==
    [action EXCEPT !.cost = H[action.cost], !.reward = H[action.reward]]

(* The actions of a list, each as ActionOf gives it *)
ActionsOf(H, actions) == [i \in DOMAIN actions |-> ActionOf(H, actions[i])]

(* Action.rate *)
rate(action) ==
    SumValues(action.reward) - SumValues(exclude(action.cost, Kind_A))
        - get(action.cost, Kind_P, 0)

RECURSIVE SortedByRating(_, _)
(* sorted(actions, key=lambda action: -action.rate()): a new list of the    *)
(* same Action objects; a stable sort, so actions of equal rating keep the  *)
(* order they were listed in.                                               *)
SortedByRating(H, actions) ==
    IF actions = <<>> THEN <<>>
    ELSE LET n      == Len(actions)
             sorted == SortedByRating(H, SubSeq(actions, 1, n - 1))
             a      == actions[n]
             \* a goes behind every action whose rating is at least its own
             pos    == Cardinality({i \in DOMAIN sorted :
                                       rate(ActionOf(H, sorted[i])) >= rate(ActionOf(H, a))})
         IN  SubSeq(sorted, 1, pos) \o <<a>> \o SubSeq(sorted, pos + 1, Len(sorted))

(* Game._get_maximum_resources_per_round *)
MaximumResourcesPerRound(actions) ==
    LET rewarded == UNION {DOMAIN actions[i].reward : i \in DOMAIN actions}
    IN  [k \in rewarded |->
            Max({actions[i].reward[k] : i \in {j \in DOMAIN actions : k \in DOMAIN actions[j].reward}})]

(* The objects Game.__init__ makes on the store S = [heap, lists, objs]:    *)
(* the sorted list of line 151 and the Resources of line 152.               *)
NewGameStore(S, actions) ==
    LET sorted == SortedByRating(S.heap, actions)
    IN  [S EXCEPT !.lists = Append(@, sorted),
                  !.heap = Append(@, MaximumResourcesPerRound(ActionsOf(S.heap, sorted)))]

(* Game.__init__: the Game object.  start and target are the references of *)
(* the caller's Resources objects, kept as they are (lines 149-150);        *)
(* actions and max_resources_per_round are the references of the two        *)
(* objects made.                                                            *)
NewGame(S, rounds, actions_per_round, start, target, actions) ==
    [rounds |-> rounds, actions_per_round |-> actions_per_round,
     start |-> start, target |-> target, actions |-> Len(S.lists) + 1,
     max_resources_per_round |-> Len(S.heap) + 1]

----------------------------------------------------------------------------
(* GameState and GameSequence.  The operators on dicts say what a method    *)
(* computes; the ones on a store S = [heap, lists, objs] say what it        *)
(* mutates.  An operator on dicts is handed an action as ActionOf gives it, *)
(* an operator on a store the Action object itself.  A method that looks up *)
(* a kind its dict lacks raises KeyError: the operator                      *)
(* is then "KeyError", whatever the other kinds hold, since a list          *)
(* comprehension is built whole before all() sees it.  A raised             *)
(* perform_action leaves behind a dict whose earlier kinds are already      *)
(* updated: perform_action_raised gives it.                                 *)

(* d[k] raises KeyError for some k of keys *)
KeyMissing(d, keys) == \E k \in keys : k \notin DOMAIN d

(* is_solved with any() for all(): one kind at its target is enough *)
is_solved_any(lookup, target) ==
    \E resource \in DOMAIN target : lookup[resource] >= target[resource]

(* GameState.is_solved *)
is_solved(lookup, target) ==
    IF KeyMissing(lookup, DOMAIN target) THEN "KeyError"
    ELSE \A resource \in DOMAIN target : lookup[resource] >= target[resource]

(* can_be_solved that rejects nothing *)
GameState_can_be_solved_always(lookup, remaining_rounds, target_resources, max_resources_per_round) ==
    TRUE

(* GameState.can_be_solved *)
GameState_can_be_solved(lookup, remaining_rounds, target_resources, max_resources_per_round) ==
    IF \/ KeyMissing(lookup, DOMAIN max_resources_per_round)
       \/ KeyMissing(target_resources, DOMAIN max_resources_per_round)
    THEN "KeyError"
    ELSE \A resource \in DOMAIN max_resources_per_round :
             lookup[resource] + remaining_rounds * max_resources_per_round[resource]
                 >= target_resources[resource]

(* can_perform_action that never refuses *)
can_perform_action_always(lookup, action) == TRUE

(* GameState.can_perform_action *)
can_perform_action(lookup, action) ==
    IF KeyMissing(lookup, DOMAIN action.cost) THEN "KeyError"
    ELSE \A resource \in DOMAIN action.cost : lookup[resource] >= action.cost[resource]

(* perform_action without its first loop: the cost is never taken *)
SubtractCostSkipped(lookup, cost) == lookup

(* The first loop of GameState.perform_action *)
SubtractCost(lookup, cost) ==
    IF KeyMissing(lookup, DOMAIN cost) THEN "KeyError"
    ELSE [k \in DOMAIN lookup |->
             IF k \in DOMAIN cost THEN lookup[k] - cost[k] ELSE lookup[k]]

(* perform_action with = for += in its second loop *)
AddRewardOverwrites(lookup, reward) ==
    [k \in DOMAIN lookup |-> IF k \in DOMAIN reward THEN reward[k] ELSE lookup[k]]

(* The second loop of GameState.perform_action *)
AddReward(lookup, reward) ==
    IF KeyMissing(lookup, DOMAIN reward) THEN "KeyError"
    ELSE [k \in DOMAIN lookup |->
             IF k \in DOMAIN reward THEN lookup[k] + reward[k] ELSE lookup[k]]

(* GameState.perform_action: mutates the state's own dict and move counter; *)
(* a KeyError of either loop comes before line 123.  The second loop reads  *)
(* the reward as the first loop left the heap.                              *)
GameState_perform_action(S, self, action) ==
    LET a    == ActionOf(S.heap, action)
        r    == S.objs[self].resources
        cost == [S.heap EXCEPT ![r] = SubtractCost(@, a.cost)]
    IN  IF KeyMissing(S.heap[r], DOMAIN a.cost \cup DOMAIN a.reward)
        THEN "KeyError"
        ELSE [S EXCEPT !.heap = [cost EXCEPT ![r] = AddReward(@, cost[action.reward])],
                       !.objs[self].moves = @ + 1]

(* GameSequence.perform_action: a KeyError of line 141 comes before the     *)
(* append of line 143, which adds the Action object to the state's own list *)
(* in place                                                                 *)
GameSequence_perform_action(S, self, action) ==
    LET a == ActionOf(S.heap, action)
    IN  IF KeyMissing(S.heap[S.objs[self].resources], DOMAIN a.cost \cup DOMAIN a.reward)
        THEN "KeyError"
        ELSE LET T == GameState_perform_action(S, self, action)
             IN  [T EXCEPT !.lists[S.objs[self].sequence] = Append(@, action)]

(* The part of the dict a (a cost or a reward, its keys in the order keys)   *)
(* that a loop over it gets through before it meets a key the dict d lacks  *)
Reached(d, a, keys) ==
    LET n == CHOOSE m \in 0..Len(keys) :
                 /\ \A i \in 1..m : keys[i] \in DOMAIN d
                 /\ m < Len(keys) => keys[m + 1] \notin DOMAIN d
    IN  [k \in {keys[i] : i \in 1..n} |-> a[k]]

(* What perform_action leaves when line 120 or line 122 raises KeyError:    *)
(* the kinds before the missing one are updated, the move counter (line     *)
(* 123) and the list (line 143) are not.                                    *)
perform_action_raised(S, self, action) ==
    LET lookup == S.heap[S.objs[self].resources]
        a      == ActionOf(S.heap, action)
    IN  IF KeyMissing(lookup, DOMAIN a.cost)
        THEN [S EXCEPT !.heap[S.objs[self].resources] =
                 SubtractCost(@, Reached(lookup, a.cost, a.cost_keys))]
        ELSE [S EXCEPT !.heap[S.objs[self].resources] =
                 AddReward(SubtractCost(@, a.cost),
                           Reached(lookup, a.reward, a.reward_keys))]

(* GameSequence.__init__ (with GameState.__init__): a new object on objs,  *)
(* holding the Resources object and the list it is handed, by reference     *)
NewGameSequence(S, resources, sequence) ==
    [S EXCEPT !.objs = Append(@, [resources |-> resources,
                                  moves |-> Len(S.lists[sequence]),
                                  sequence |-> sequence])]

(* A new Resources object on the dict lookup: Resources(lookup) *)
NewResources(S, lookup) == [S EXCEPT !.heap = Append(@, lookup)]

(* A new list object of the elements given: a display, or list(...) *)
NewList(S, elements) == [S EXCEPT !.lists = Append(@, elements)]

(* copy that hands the new state the list of the old one: self.sequence for *)
(* list(self.sequence)                                                      *)
GameSequence_copy_shared(S, self) ==
    LET T == NewResources(S, S.heap[S.objs[self].resources])
    IN  NewGameSequence(T, Len(T.heap), S.objs[self].sequence)

(* GameSequence.copy: a new Resources on a copy of the dict, and a new list *)
(* of the same Action objects                                               *)
GameSequence_copy(S, self) ==
    LET T == NewList(NewResources(S, S.heap[S.objs[self].resources]),
                     S.lists[S.objs[self].sequence])
    IN  NewGameSequence(T, Len(T.heap), Len(T.lists))

(* GameSequence.get_moves *)
get_moves(S, self) == Len(S.lists[S.objs[self].sequence])

(* Game.remaining_rounds *)
remaining_rounds(g, S, state) == g.rounds * g.actions_per_round - get_moves(S, state)

(* Game.can_be_solved *)
can_be_solved(g, S, state) ==
    GameState_can_be_solved(S.heap[S.objs[state].resources], remaining_rounds(g, S, state),
                            S.heap[g.target], S.heap[g.max_resources_per_round])

(* advance_round that restores the astronauts and forgets R and H *)
AdvancedLookupAstronautsOnly(lookup, start) ==
    [k \in DOMAIN lookup |-> IF k = Kind_A THEN start[Kind_A] ELSE lookup[k]]

(* What Game.advance_round makes of a dict, given the start dict; line 193  *)
(* raises KeyError when the dict has astronauts and the start dict none     *)
AdvancedLookup(lookup, start) ==
    IF Kind_A \in DOMAIN lookup /\ Kind_A \notin DOMAIN start THEN "KeyError"
    ELSE [k \in DOMAIN lookup |->
             IF k = Kind_A THEN start[Kind_A]
             ELSE IF k = Kind_R THEN 0
             ELSE IF k = Kind_H THEN lookup[k] - 2
             ELSE lookup[k]]

(* Game.advance_round: mutates the Resources object it is handed *)
advance_round(g, S, current_resources) ==
    IF Kind_A \in DOMAIN S.heap[current_resources] /\ Kind_A \notin DOMAIN S.heap[g.start]
    THEN "KeyError"
    ELSE [S EXCEPT !.heap[current_resources] = AdvancedLookup(@, S.heap[g.start])]

(* tuple(sorted(lookup.items())): the keys of a dict differ, so the key    *)
(* alone places an item: behind the items of every smaller key              *)
SortedItems(lookup) ==
    LET keys == DOMAIN lookup
    IN  [i \in 1..Cardinality(keys) |->
            LET k == CHOOSE x \in keys : Cardinality({j \in keys : StrLess(j, x)}) = i - 1
            IN  <<k, lookup[k]>>]

(* A key that leaves the resource vector out *)
hashed_state_remaining_only(remaining, lookup) == <<remaining, <<>>>>

(* backtrack's hashed_state *)
hashed_state(remaining, lookup) == <<remaining, SortedItems(lookup)>>

----------------------------------------------------------------------------
(* find_min_steps *)

Store == [heap |-> heap, lists |-> lists, objs |-> objs]

Top == stack[Len(stack)]

(* state.resources.lookup *)
LookupOf(state) == heap[objs[state].resources]

(* state.sequence: the actions of the state's list *)
SequenceOf(state) == ActionsOf(heap, lists[objs[state].sequence])

(* self.actions, the Action objects of the Game's list *)
Actions == lists[game.actions]

(* The search as the code runs it.  The switch exists for comparison only: *)
(* memo off leaves the lookup of lines 254-255 out.                        *)
CodeMode == [memo |-> TRUE]

(* Line 249: the cut against the best solution known *)
PrunedByBest(state) ==
    /\ best_solution # None
    /\ \/ get_moves(Store, state) > get_moves(Store, best_solution)
       \/ LookupOf(state)[Kind_P] <= LookupOf(best_solution)[Kind_P]

(* The interpreter's bound on nested calls, sys.getrecursionlimit(), which  *)
(* the file leaves at CPython's default.                                    *)
RecursionLimit == 1000

(* The calls under way when find_min_steps is called at line 294: the       *)
(* module's own frame (line 314) and main's.                                *)
CallerFrames == 2

(* The depth of the k-th activation of backtrack: the caller's frames,      *)
(* find_min_steps, and one frame for each activation down to it.            *)
Depth(k) == CallerFrames + 1 + k

(* A step of the k-th activation that nests `nested` more calls raises      *)
(* RecursionError when they would go beyond the limit.  CPython 3.11 counts *)
(* each Python frame (a function, a method, a comprehension), one more call *)
(* for the construction of an object of a class of this file, and one more  *)
(* for a comparison inside a comprehension.                                 *)
Overflows(k, nested) == Depth(k) + nested > RecursionLimit

(* The depths the lines of backtrack nest to *)
(* line 249: a comparison *)
NestedAt249 == 1

(* line 257: is_solved, its list comprehension, one comparison for each     *)
(* kind of the target                                                       *)
NestedAt257 == IF DOMAIN heap[game.target] = {} THEN 2 ELSE 3

(* line 259: rate, exclude, and the Resources that exclude constructs (or   *)
(* its dict comprehension and the comparison in it)                         *)
NestedAt259 == 4

(* line 262: Game.can_be_solved, GameState.can_be_solved, its list          *)
(* comprehension and one comparison for each rewarded kind;                 *)
(* remaining_rounds and get_moves nest as deep when there is none           *)
NestedAt262 == IF DOMAIN heap[game.max_resources_per_round] = {} THEN 3 ELSE 4

(* line 268: can_perform_action, its list comprehension, one comparison for *)
(* each kind of the cost                                                    *)
NestedAt268(action) == IF DOMAIN action.cost = {} THEN 2 ELSE 3

(* line 270: copy, the GameSequence it constructs, and GameState.__init__   *)
(* under GameSequence.__init__                                              *)
NestedAt270 == 4

(* Which way the k-th activation of backtrack leaves lines 249-263, and at  *)
(* which line: the lookups that raise KeyError and the calls that raise     *)
(* RecursionError included, in the order the code evaluates them.           *)
Step(case, line) == [case |-> case, line |-> line]

EntryStepAt(k, f) ==
    LET lookup == LookupOf(f.state)
    IN  IF best_solution # None /\ Overflows(k, NestedAt249)
        THEN Step("RecursionError", 249)
        ELSE IF /\ best_solution # None
                /\ ~ (get_moves(Store, f.state) > get_moves(Store, best_solution))
                /\ (Kind_P \notin DOMAIN lookup \/ Kind_P \notin DOMAIN LookupOf(best_solution))
        THEN Step("KeyError", 249)
        ELSE IF PrunedByBest(f.state) THEN Step("pruned", 250)
        ELSE IF mode.memo /\ f.hashed_state \in DOMAIN memo
        THEN Step("memo", 255)
        ELSE IF Overflows(k, NestedAt257) THEN Step("RecursionError", 257)
        ELSE IF KeyMissing(lookup, DOMAIN heap[game.target]) THEN Step("KeyError", 257)
        ELSE IF is_solved(lookup, heap[game.target])
        THEN (IF Overflows(k, NestedAt259) THEN Step("RecursionError", 259)
              ELSE Step("solved", 260))
        ELSE IF f.remaining_rounds = 0 THEN Step("exhausted", 263)
        ELSE IF Overflows(k, NestedAt262) THEN Step("RecursionError", 262)
        ELSE IF \/ KeyMissing(lookup, DOMAIN heap[game.max_resources_per_round])
                \/ KeyMissing(heap[game.target], DOMAIN heap[game.max_resources_per_round])
        THEN Step("KeyError", 262)
        ELSE IF ~ can_be_solved(game, Store, f.state) THEN Step("exhausted", 263)
        ELSE Step("expand", 265)

EntryCaseAt(k, f) == EntryStepAt(k, f).case

(* The innermost activation at lines 249-263 *)
EntryCase(f) == EntryCaseAt(Len(stack), f)

(* Which way the loop of lines 267-278 goes for the action the k-th         *)
(* activation is at, and up to which line.  The % of line 274 raises        *)
(* ZeroDivisionError for actions_per_round = 0 (the call of line 286 then   *)
(* hands down 0 and the loop is not reached).                               *)
LoopStepAt(k, f) ==
    LET lookup == LookupOf(f.state)
    IN  IF f.i > Len(Actions) THEN Step("memoize", 281)
        ELSE LET action == ActionOf(heap, Actions[f.i])
             IN  IF Overflows(k, NestedAt268(action)) THEN Step("RecursionError", 268)
                 ELSE IF KeyMissing(lookup, DOMAIN action.cost) THEN Step("KeyError", 268)
                 ELSE IF ~ can_perform_action(lookup, action) THEN Step("skip", 268)
                 ELSE IF Overflows(k, NestedAt270) THEN Step("RecursionError", 270)
                 ELSE IF KeyMissing(lookup, DOMAIN action.reward) THEN Step("KeyError", 271)
                 ELSE IF game.actions_per_round = 0 THEN Step("ZeroDivisionError", 274)
                 ELSE Step("perform", 277)

LoopCaseAt(k, f) == LoopStepAt(k, f).case

(* The innermost activation in its loop *)
LoopCase(f) == LoopCaseAt(Len(stack), f)

(* Line 278: the caller's min_steps after its callee returned steps *)
MinSteps(min_steps, steps) ==
    IF steps # None /\ (min_steps = None
                        \/ get_moves(Store, steps) < get_moves(Store, min_steps))
    THEN steps ELSE min_steps

(* The innermost activation returns v: to its caller's line 277-278, or, the *)
(* outermost one, to find_min_steps' line 286-287.                           *)
Return(v) ==
    LET rest == SubSeq(stack, 1, Len(stack) - 1)
    IN  IF rest = <<>>
        THEN /\ stack' = <<>>
             /\ result' = v
             /\ pc' = "returned"
        ELSE /\ stack' = [rest EXCEPT ![Len(rest)] =
                             [@ EXCEPT !.min_steps = MinSteps(@, v), !.i = @ + 1]]
             /\ UNCHANGED <<result, pc>>

(* An activation of backtrack on a state of the store S: its arguments and  *)
(* its locals.  hashed_state (line 253) is made of the arguments alone,     *)
(* which nothing changes between the call and line 253, and is kept from    *)
(* the call on.                                                             *)
Frame(S, remaining, state) ==
    [remaining_rounds |-> remaining, state |-> state, at |-> "enter", i |-> 0,
     min_steps |-> None,
     hashed_state |-> hashed_state(remaining, S.heap[S.objs[state].resources])]

(* find_min_steps that leaves best_solution as the last call left it *)
FindMinStepsKeepsBest ==
    /\ pc = "init"
    /\ memo' = <<>>
    /\ \E T \in {NewGameSequence(NewList(Store, <<>>), game.start, Len(lists) + 1)} :
           /\ lists' = T.lists
           /\ objs' = T.objs
           /\ stack' = <<Frame(T, game.rounds * game.actions_per_round, Len(T.objs))>>
    /\ pc' = "running"
    /\ UNCHANGED <<puzzle, game, mode, heap, best_solution, result, last, prev>>

(* Lines 239-246 and the call of line 286: the root state is built on the   *)
(* Game's own start object and a new, empty list.                            *)
FindMinSteps ==
    /\ pc = "init"
    /\ memo' = <<>>
    /\ best_solution' = None
    /\ \E T \in {NewGameSequence(NewList(Store, <<>>), game.start, Len(lists) + 1)} :
           /\ lists' = T.lists
           /\ objs' = T.objs
           /\ stack' = <<Frame(T, game.rounds * game.actions_per_round, Len(T.objs))>>
    /\ pc' = "running"
    /\ UNCHANGED <<puzzle, game, mode, heap, result, last, prev>>

Entering == pc = "running" /\ stack # <<>> /\ Top.at = "enter"

Looping == pc = "running" /\ stack # <<>> /\ Top.at = "loop"

(* Lines 249-250 *)
BacktrackPruned ==
    /\ Entering /\ EntryCase(Top) = "pruned"
    /\ Return(None)
    /\ UNCHANGED <<puzzle, game, mode, heap, lists, objs, memo, best_solution, last, prev>>

(* Lines 253-255 *)
BacktrackMemoHit ==
    /\ Entering /\ EntryCase(Top) = "memo"
    /\ Return(memo[Top.hashed_state])
    /\ UNCHANGED <<puzzle, game, mode, heap, lists, objs, memo, best_solution, last, prev>>

(* Lines 257-260 *)
BacktrackSolved ==
    /\ Entering /\ EntryCase(Top) = "solved"
    /\ best_solution' = Top.state
    /\ Return(Top.state)
    /\ UNCHANGED <<puzzle, game, mode, heap, lists, objs, memo, last, prev>>

(* Lines 262-263 *)
BacktrackExhausted ==
    /\ Entering /\ EntryCase(Top) = "exhausted"
    /\ Return(None)
    /\ UNCHANGED <<puzzle, game, mode, heap, lists, objs, memo, best_solution, last, prev>>

(* Lines 265-267: into the loop over the actions *)
BacktrackExpand ==
    /\ Entering /\ EntryCase(Top) = "expand"
    /\ stack' = [stack EXCEPT ![Len(stack)] = [@ EXCEPT !.at = "loop", !.i = 1]]
    /\ UNCHANGED <<puzzle, game, mode, heap, lists, objs, memo, best_solution, result, pc, last, prev>>

(* The child state without lines 273-275: no round is ever advanced *)
ChildStateNeverAdvanced(S, state, action) ==
    GameSequence_perform_action(GameSequence_copy(S, state), Len(S.objs) + 1, action)

(* Lines 270-275: the child state of new_state's parent under action.  C is  *)
(* the store after the copy of line 270, T after the perform_action of line *)
(* 271, each worked out once.                                               *)
ChildState(S, state, action) ==
    LET new_state == Len(S.objs) + 1
        a == ActionOf(S.heap, action)
    IN  IF KeyMissing(S.heap[S.objs[state].resources], DOMAIN a.cost \cup DOMAIN a.reward)
        THEN "KeyError"
        ELSE IF game.actions_per_round = 0 THEN "ZeroDivisionError"
        ELSE CHOOSE child \in
                 {IF /\ PyMod(get_moves(T, new_state), game.actions_per_round) = 0
                     /\ get_moves(T, new_state) # 0
                  THEN advance_round(game, T, T.objs[new_state].resources)
                  ELSE T :
                     T \in {GameSequence_perform_action(C, new_state, action) :
                               C \in {GameSequence_copy(S, state)}}} : TRUE

(* The recursive call handing down remaining_rounds unchanged *)
LoopPerformSameRemaining ==
    /\ Looping /\ LoopCase(Top) = "perform"
    /\ \E T \in {ChildState(Store, Top.state, Actions[Top.i])} :
           /\ heap' = T.heap
           /\ lists' = T.lists
           /\ objs' = T.objs
           /\ stack' = Append(stack, Frame(T, Top.remaining_rounds, Len(T.objs)))
    /\ UNCHANGED <<puzzle, game, mode, memo, best_solution, result, pc, last, prev>>

(* Lines 268-277: an applicable action, down to the recursive call *)
LoopPerform ==
    /\ Looping /\ LoopCase(Top) = "perform"
    /\ \E T \in {ChildState(Store, Top.state, Actions[Top.i])} :
           /\ heap' = T.heap
           /\ lists' = T.lists
           /\ objs' = T.objs
           /\ stack' = Append(stack, Frame(T, Top.remaining_rounds - 1, Len(T.objs)))
    /\ UNCHANGED <<puzzle, game, mode, memo, best_solution, result, pc, last, prev>>

(* Line 268, the action not applicable *)
LoopSkip ==
    /\ Looping /\ LoopCase(Top) = "skip"
    /\ stack' = [stack EXCEPT ![Len(stack)] = [@ EXCEPT !.i = @ + 1]]
    /\ UNCHANGED <<puzzle, game, mode, heap, lists, objs, memo, best_solution, result, pc, last, prev>>

(* Lines 280-284 *)
LoopMemoize ==
    /\ Looping /\ LoopCase(Top) = "memoize"
    /\ memo' = (hashed_state(Top.remaining_rounds, LookupOf(Top.state)) :> Top.min_steps) @@ memo
    /\ Return(Top.min_steps)
    /\ UNCHANGED <<puzzle, game, mode, heap, lists, objs, best_solution, last, prev>>

(* The exceptions that leave find_min_steps *)
Exceptions == {"KeyError", "RecursionError", "ZeroDivisionError"}

(* What an exception of the loop leaves of new_state: nothing when line 268 *)
(* or line 270 raises; the copy of line 270 with what perform_action got    *)
(* through when line 271 raises; the copy with the action performed when    *)
(* line 274 raises.                                                         *)
LoopRaisedStore ==
    LET line   == LoopStepAt(Len(stack), Top).line
        action == Actions[Top.i]
        copied == GameSequence_copy(Store, Top.state)
    IN  IF line = 271 THEN perform_action_raised(copied, Len(objs) + 1, action)
        ELSE IF line = 274 THEN GameSequence_perform_action(copied, Len(objs) + 1, action)
        ELSE Store

(* A KeyError of lines 249, 257, 262, 268 or 271, a RecursionError of lines *)
(* 249-270 or a ZeroDivisionError of line 274 passes through every          *)
(* activation and leaves find_min_steps; pc keeps which.  Line 258 has      *)
(* assigned best_solution when line 259 raises.                             *)
BacktrackRaises ==
    /\ \/ /\ Entering /\ EntryCase(Top) \in Exceptions
          /\ pc' = EntryCase(Top)
          /\ best_solution' = IF EntryStepAt(Len(stack), Top).line = 259
                                  THEN Top.state ELSE best_solution
          /\ UNCHANGED <<heap, lists, objs>>
       \/ /\ Looping /\ LoopCase(Top) \in Exceptions
          /\ pc' = LoopCase(Top)
          /\ \E T \in {LoopRaisedStore} :
                 /\ heap' = T.heap
                 /\ lists' = T.lists
                 /\ objs' = T.objs
          /\ UNCHANGED best_solution
    /\ stack' = <<>>
    /\ UNCHANGED <<puzzle, game, mode, memo, result, last, prev>>

----------------------------------------------------------------------------
(* The puzzles explored *)

(* What Action(Resources(cost), Resources(reward)) is on the dicts made of  *)
(* the items given: the two dicts, and the order each lists its keys in     *)
Act(cost, reward) ==
    [cost |-> Dict(cost), reward |-> Dict(reward),
     cost_keys |-> KeyOrder(cost), reward_keys |-> KeyOrder(reward)]

(* The actions the explored catalogues are listed from *)
ActionPool ==
    << Act(<< <<Kind_A, 1>> >>, << <<Kind_C, 1>> >>),
       Act(<< <<Kind_P, 1>> >>, << <<Kind_C, 3>> >>),
       Act(<< <<Kind_C, 1>> >>, << <<Kind_A, 1>> >>),
       Act(<< <<Kind_A, 2>> >>, << <<Kind_C, 2>> >>) >>

(* Lists of one to MaxActions different actions of the pool *)
ActionLists ==
    LET picks == UNION {[1..n -> DOMAIN ActionPool] : n \in 1..MaxActions}
    IN  {[i \in DOMAIN s |-> ActionPool[s[i]]] :
            s \in {t \in picks : \A i, j \in DOMAIN t : t[i] = t[j] => i = j}}

StartVectors == {Dict(<< <<Kind_P, p>>, <<Kind_A, a>>, <<Kind_C, 0>>, <<Kind_H, 0>> >>) : p \in 0..MaxStart, a \in 0..MaxStart}

TargetVectors ==
    {Dict(<< <<Kind_C, c>> >>) : c \in 1..MaxTarget}
        \cup {Dict(<< <<Kind_A, a>>, <<Kind_C, c>> >>) : a \in 1..MaxStart, c \in 1..MaxTarget}

Puzzle(rounds, actions_per_round, start, target, actions) ==
    [rounds |-> rounds, actions_per_round |-> actions_per_round, start |-> start,
     target |-> target, actions |-> actions]

Family ==
    {Puzzle(r, n, s, t, l) : r \in 1..MaxRounds, n \in 1..MaxPerRound,
                             s \in StartVectors, t \in TargetVectors, l \in ActionLists}

(* The concrete scenario of the specification, as Game(...) is handed it   *)
(* by a caller that wraps every dict in a Resources, the way Resources.parse *)
(* and Action.parse do.  The numbers are those of test_solve (lines         *)
(* 303-309); test_solve itself hands Action bare dicts, so that its         *)
(* Game(...) raises AttributeError at line 88, under the sort of line 151,  *)
(* and no Game of it is ever searched.                                      *)
ConcreteScenario ==
    Puzzle(3, 4, Dict(<< <<Kind_P, 10>>, <<Kind_A, 3>>, <<Kind_C, 0>>, <<Kind_D, 0>>, <<Kind_N, 0>> >>),
           Dict(<< <<Kind_C, 5>>, <<Kind_D, 2>>, <<Kind_N, 1>> >>),
           << Act(<< <<Kind_D, 1>>, <<Kind_N, 1>> >>, << <<Kind_C, 3>> >>),
              Act(<< <<Kind_D, 1>> >>, << <<Kind_N, 3>>, <<Kind_C, 2>> >>),
              Act(<< <<Kind_C, 1>> >>, << <<Kind_N, 2>> >>),
              Act(<< <<Kind_P, 1>> >>, << <<Kind_C, 3>> >>),
              Act(<< <<Kind_P, 1>> >>, << <<Kind_D, 2>> >>) >>)

(* The lists of actions that reward cargo alone *)
CargoLists ==
    {l \in ActionLists : \A i \in DOMAIN l : DOMAIN l[i].reward = {Kind_C}}

(* Puzzles at the edge of what the moves of the game can bring: from a      *)
(* start that affords every action, with m the largest cargo reward on      *)
(* offer, a cargo target one beyond m * rounds, one of m * rounds *         *)
(* actions_per_round, and one beyond that.                                  *)
EdgeFamily ==
    UNION {LET m == Max({l[i].reward[Kind_C] : i \in DOMAIN l})
           IN  {Puzzle(r, n, s, Dict(<< <<Kind_C, c>> >>), l) :
                   s \in {v \in StartVectors : v[Kind_P] = MaxStart /\ v[Kind_A] = MaxStart},
                   c \in {m * r + 1, m * r * n, m * r * n + 1}} :
              r \in 1..MaxRounds, n \in 1..MaxPerRound, l \in CargoLists}

Puzzles == Family \cup EdgeFamily \cup {ConcreteScenario}

NoOp == [op |-> "none", n |-> 0, action |-> Act(<<>>, <<>>), lookup |-> <<>>,
         moves |-> 0, sequence |-> <<>>]

NoRun == [outcome |-> "pending", length |-> 0]

(* The objects a caller hands Game(...), as Game.parse_from_file makes     *)
(* them (lines 164-169): the Resources of the start at reference 1, of the  *)
(* target at 2, then the cost and the reward of each action listed.         *)
CallerStore(p) ==
    [heap  |-> <<p.start, p.target>> \o
                   [j \in 1..(2 * Len(p.actions)) |->
                       IF j % 2 = 1 THEN p.actions[(j + 1) \div 2].cost
                                    ELSE p.actions[j \div 2].reward],
     lists |-> <<>>,
     objs  |-> <<>>]

(* The Action objects on them, in the order listed *)
CallerActions(p) ==
    [i \in DOMAIN p.actions |->
        [p.actions[i] EXCEPT !.cost = 2 * i + 1, !.reward = 2 * i + 2]]

(* Game(...) constructed on the caller's objects, with the memo lookup set  *)
(* as m says                                                                *)
ConstructedIn(p, m) ==
    /\ puzzle = p
    /\ game = NewGame(CallerStore(p), p.rounds, p.actions_per_round, 1, 2, CallerActions(p))
    /\ mode = m
    /\ \E S \in {NewGameStore(CallerStore(p), CallerActions(p))} :
           /\ heap = S.heap
           /\ lists = S.lists
           /\ objs = S.objs
    /\ stack = <<>>
    /\ memo = <<>>
    /\ best_solution = None
    /\ result = None
    /\ last = NoOp
    /\ prev = NoRun

Constructed(p) == ConstructedIn(p, CodeMode)

Init ==
    /\ \E p \in Puzzles : Constructed(p)
    /\ pc = "init"

Next ==
    \/ FindMinSteps
    \/ BacktrackPruned
    \/ BacktrackMemoHit
    \/ BacktrackSolved
    \/ BacktrackExhausted
    \/ BacktrackExpand
    \/ LoopPerform
    \/ LoopSkip
    \/ LoopMemoize
    \/ BacktrackRaises

Spec == Init /\ [][Next]_vars

----------------------------------------------------------------------------
(* The rules of the game, stated on vectors alone: what a replay of a       *)
(* sequence from the start vector does, and what can be reached at all.     *)

(* V has at least W's quantity of every kind W names *)
Dominates(V, W) == \A k \in DOMAIN W : k \in DOMAIN V /\ V[k] >= W[k]

(* V - a.cost + a.reward, kind by kind *)
Applied(V, a) == [k \in DOMAIN V |-> V[k] - get(a.cost, k, 0) + get(a.reward, k, 0)]

(* The vector after a is applied to V as the n-th move of the game *)
Moved(V, a, n) ==
    IF PyMod(n, puzzle.actions_per_round) = 0
    THEN AdvancedLookup(Applied(V, a), puzzle.start)
    ELSE Applied(V, a)

RECURSIVE Replay(_, _)
(* The vector after the first n actions of seq, replayed from the start *)
Replay(seq, n) ==
    IF n = 0 THEN puzzle.start ELSE Moved(Replay(seq, n - 1), seq[n], n)

(* Every action of seq meets a vector that has its cost *)
ReplayApplicable(seq) ==
    \A n \in 1..Len(seq) : Dominates(Replay(seq, n - 1), seq[n].cost)

Budget == puzzle.rounds * puzzle.actions_per_round

RECURSIVE SolvableWithin(_, _, _)
(* Some sequence of at most n applicable actions leads from V, reached      *)
(* after m moves, to a vector that satisfies the target.                    *)
SolvableWithin(V, m, n) ==
    /\ n >= 0
    /\ \/ Dominates(V, puzzle.target)
       \/ /\ n > 0
          /\ \E i \in DOMAIN puzzle.actions :
                /\ Dominates(V, puzzle.actions[i].cost)
                /\ SolvableWithin(Moved(V, puzzle.actions[i], m + 1), m + 1, n - 1)

Returned == pc = "returned" /\ result # None

(* find_min_steps was left by an exception *)
Raised == pc \in Exceptions

(* find_min_steps has returned or raised *)
Ended == pc = "returned" \/ Raised

----------------------------------------------------------------------------
(* C1: a sequence find_min_steps returns has at most rounds *               *)
(* actions_per_round actions of the catalogue, each applicable where the    *)
(* replay from the start vector meets it, and the replay ends in a vector   *)
(* with at least the target's quantity of every kind the target names.      *)
ReturnedSequenceSolves ==
    Returned =>
        LET seq == SequenceOf(result)
        IN  /\ Len(seq) <= Budget
            /\ \A n \in DOMAIN seq : \E i \in DOMAIN puzzle.actions : seq[n] = puzzle.actions[i]
            /\ ReplayApplicable(seq)
            /\ Dominates(Replay(seq, Len(seq)), puzzle.target)

(* A returned sequence that runs over a round boundary *)
ReturnedAcrossRounds ==
    /\ Returned
    /\ Len(SequenceOf(result)) > puzzle.actions_per_round
    /\ puzzle.start[Kind_A] > 0
    /\ \E n \in DOMAIN SequenceOf(result) : Kind_A \in DOMAIN SequenceOf(result)[n].cost

(* C2: no sequence shorter than the returned one solves the puzzle. *)
ReturnedSequenceIsShortest ==
    Returned => ~ SolvableWithin(puzzle.start, 0, Len(SequenceOf(result)) - 1)

(* C3: find_min_steps returns normally, and returns None exactly when no    *)
(* sequence of at most rounds * actions_per_round moves solves the puzzle.  *)
NoSolutionExactlyWhenUnsolvable ==
    Ended =>
        /\ pc = "returned"
        /\ (result = None) <=> ~ SolvableWithin(puzzle.start, 0, Budget)

(* C4 as claimed: no kind is negative at any step of the replay of a        *)
(* returned sequence.                                                       *)
ReplayNeverNegative ==
    Returned =>
        \A n \in 0..Len(SequenceOf(result)) :
            \A k \in DOMAIN puzzle.start : Replay(SequenceOf(result), n)[k] >= 0

(* C4 as amended: at every step of the replay of a returned sequence the    *)
(* cost is there to be taken, and no kind but the decaying kind H, which    *)
(* advance_round lowers by 2 whatever it holds, is negative.                *)
ReplayNeverNegativeButDecay ==
    Returned =>
        /\ ReplayApplicable(SequenceOf(result))
        /\ \A n \in 0..Len(SequenceOf(result)) :
              \A k \in DOMAIN puzzle.start \ {Kind_H} : Replay(SequenceOf(result), n)[k] >= 0

(* A returned sequence that spends astronauts and whose decaying kind ends  *)
(* below zero                                                               *)
ReturnedWithDecay ==
    /\ Returned
    /\ LookupOf(result)[Kind_H] < 0
    /\ \E n \in DOMAIN SequenceOf(result) : SequenceOf(result)[n].cost # <<>>
    /\ \E n \in 1..Len(SequenceOf(result)) :
          \E k \in DOMAIN puzzle.start : Replay(SequenceOf(result), n - 1)[k]
                                            = get(SequenceOf(result)[n].cost, k, 0)
                                         /\ Replay(SequenceOf(result), n - 1)[k] > 0

(* C5: on the concrete scenario (3 rounds, 4 actions per round) the search  *)
(* runs on until it returns, never raising, and returns either a sequence   *)
(* whose replay ends with C >= 5, D >= 2 and N >= 1, or None when no 12     *)
(* moves reach such a vector.                                               *)
ScenarioOutcome ==
    puzzle = ConcreteScenario =>
        /\ ~ Raised
        /\ pc \in {"init", "running"} => ENABLED Next
        /\ pc = "returned" =>
              IF result # None
              THEN LET end == Replay(SequenceOf(result), Len(SequenceOf(result)))
                   IN  /\ ReplayApplicable(SequenceOf(result))
                       /\ end[Kind_C] >= 5 /\ end[Kind_D] >= 2 /\ end[Kind_N] >= 1
                       /\ Len(SequenceOf(result)) <= 12
              ELSE ~ SolvableWithin(puzzle.start, 0, 12)

(* The search on the concrete scenario has returned a sequence *)
ScenarioSolved == puzzle = ConcreteScenario /\ Returned

(* C9: a state that can_be_solved rejects at line 262 cannot reach the      *)
(* target in the moves it has left.                                         *)
FeasibilityBoundSound ==
    (/\ Entering
     /\ EntryCase(Top) = "exhausted"
     /\ Top.remaining_rounds # 0)
        => ~ SolvableWithin(LookupOf(Top.state), get_moves(Store, Top.state),
                            Top.remaining_rounds)

----------------------------------------------------------------------------
(* The same puzzle listed in another order: a second Game, and a second run  *)
(* of find_min_steps, after the first has ended.                             *)

Outcome ==
    IF Raised THEN [outcome |-> pc, length |-> 0]
    ELSE IF result = None THEN [outcome |-> "None", length |-> 0]
    ELSE [outcome |-> "sequence", length |-> Len(SequenceOf(result))]

Relist ==
    /\ Ended
    /\ prev = NoRun
    /\ \E f \in Permutations(DOMAIN puzzle.actions) :
          LET listed == [i \in DOMAIN puzzle.actions |-> puzzle.actions[f[i]]]
          IN  /\ listed # puzzle.actions
              /\ puzzle' = [puzzle EXCEPT !.actions = listed]
              /\ \E p \in {[puzzle EXCEPT !.actions = listed]} :
                     /\ game' = NewGame(CallerStore(p), p.rounds, p.actions_per_round,
                                        1, 2, CallerActions(p))
                     /\ \E S \in {NewGameStore(CallerStore(p), CallerActions(p))} :
                            /\ heap' = S.heap
                            /\ lists' = S.lists
                            /\ objs' = S.objs
    /\ stack' = <<>>
    /\ memo' = <<>>
    /\ best_solution' = None
    /\ result' = None
    /\ pc' = "init"
    /\ prev' = Outcome
    /\ UNCHANGED <<last, mode>>

OrderNext == Next \/ Relist

SpecOrder == Init /\ [][OrderNext]_vars

(* C10: the order the actions are listed in does not change the outcome:    *)
(* no solution both times, or sequences of one length.                      *)
ListingOrderIrrelevant ==
    (Ended /\ prev # NoRun) => Outcome = prev

----------------------------------------------------------------------------
(* The operations of a state, applied to one GameSequence built as solve()  *)
(* builds its own (lines 218-220): on a copy of the start dict.             *)

OpsKinds == {Kind_P, Kind_A, Kind_C, Kind_R, Kind_H}

OpsActionList ==
    ActionPool \o
        << Act(<< <<Kind_P, 1>>, <<Kind_C, 1>> >>, << <<Kind_C, 2>>, <<Kind_R, 1>> >>) >>

OpsActions == {OpsActionList[i] : i \in DOMAIN OpsActionList}

(* The state solve() starts on (lines 218-220): a new Resources on a copy   *)
(* of the start dict and a new, empty list                                  *)
SolveState(S, g) ==
    LET T == NewList(NewResources(S, S.heap[g.start]), <<>>)
    IN  NewGameSequence(T, Len(T.heap), Len(T.lists))

OpsInit ==
    /\ \E start \in [OpsKinds -> 0..MaxStart] :
          puzzle = Puzzle(1, 1, start, Dict(<< <<Kind_C, 1>> >>), OpsActionList)
    /\ game = NewGame(CallerStore(puzzle), puzzle.rounds, puzzle.actions_per_round, 1, 2,
                      CallerActions(puzzle))
    /\ mode = CodeMode
    /\ \E S \in {SolveState(NewGameStore(CallerStore(puzzle), CallerActions(puzzle)), game)} :
           /\ heap = S.heap
           /\ lists = S.lists
           /\ objs = S.objs
    /\ stack = <<>>
    /\ memo = <<>>
    /\ best_solution = None
    /\ result = None
    /\ pc = "ops"
    /\ last = NoOp
    /\ prev = NoRun

Before(op, action) ==
    [op |-> op, n |-> last.n + 1, action |-> action, lookup |-> LookupOf(1),
     moves |-> objs[1].moves, sequence |-> SequenceOf(1)]

(* state.perform_action(action), whether or not the state has the cost *)
PerformAction ==
    /\ pc = "ops" /\ last.n < MaxOps
    /\ \E i \in DOMAIN Actions :
          LET T == GameSequence_perform_action(Store, 1, Actions[i])
          IN  /\ heap' = T.heap
              /\ lists' = T.lists
              /\ objs' = T.objs
              /\ last' = Before("perform_action", ActionOf(heap, Actions[i]))
    /\ UNCHANGED <<puzzle, game, mode, stack, memo, best_solution, result, pc, prev>>

(* game.advance_round(state.resources) *)
AdvanceRound ==
    /\ pc = "ops" /\ last.n < MaxOps
    /\ LET T == advance_round(game, Store, objs[1].resources)
       IN  /\ heap' = T.heap
           /\ lists' = T.lists
           /\ objs' = T.objs
    /\ last' = Before("advance_round", NoOp.action)
    /\ UNCHANGED <<puzzle, game, mode, stack, memo, best_solution, result, pc, prev>>

OpsNext == PerformAction \/ AdvanceRound

SpecOps == OpsInit /\ [][OpsNext]_vars

(* C6: perform_action completes only on a state that has the action's cost  *)
(* of every cost kind.                                                      *)
PerformActionOnlyWhenApplicable ==
    last.op = "perform_action" => Dominates(last.lookup, last.action.cost)

(* C7: on a state that has the cost, perform_action leaves the vector       *)
(* V - cost + reward, one move more and the action at the end of the        *)
(* history, and leaves the start vector alone.                              *)
PerformActionEffect ==
    (last.op = "perform_action" /\ Dominates(last.lookup, last.action.cost)) =>
        /\ LookupOf(1) = Applied(last.lookup, last.action)
        /\ objs[1].moves = last.moves + 1
        /\ SequenceOf(1) = Append(last.sequence, last.action)
        /\ heap[game.start] = puzzle.start

(* An applicable action that costs and rewards the same kind, performed on  *)
(* a state that has moved before                                            *)
PerformedApplicable ==
    /\ last.op = "perform_action"
    /\ Dominates(last.lookup, last.action.cost)
    /\ DOMAIN last.action.cost \cap DOMAIN last.action.reward # {}
    /\ last.moves > 0
    /\ \E k \in OpsKinds : LookupOf(1)[k] # last.lookup[k]

(* C8: advance_round sets A to the start vector's A, R to 0, lowers H by 2  *)
(* and leaves every other kind, the move counter and the history as they    *)
(* were, however many actions went before.                                  *)
AdvanceRoundEffect ==
    last.op = "advance_round" =>
        /\ DOMAIN LookupOf(1) = DOMAIN last.lookup
        /\ \A k \in DOMAIN last.lookup :
              LookupOf(1)[k] = CASE k = Kind_A -> puzzle.start[Kind_A]
                                 [] k = Kind_R -> 0
                                 [] k = Kind_H -> last.lookup[Kind_H] - 2
                                 [] OTHER -> last.lookup[k]
        /\ objs[1].moves = last.moves
        /\ SequenceOf(1) = last.sequence
        /\ heap[game.start] = puzzle.start

(* advance_round after an action that spent astronauts, on a state that     *)
(* holds some of every kind                                                 *)
AdvancedAfterAction ==
    /\ last.op = "advance_round"
    /\ last.moves > 0
    /\ last.lookup[Kind_A] < puzzle.start[Kind_A]
    /\ last.lookup[Kind_R] > 0
    /\ last.lookup[Kind_P] > 0 /\ last.lookup[Kind_C] > 0
    /\ \A k \in OpsKinds : last.lookup[k] >= 0
    /\ LookupOf(1)[Kind_H] = puzzle.start[Kind_H] - 2

----------------------------------------------------------------------------
(* find_min_steps called a second time on the same Game, whose objects the  *)
(* first call leaves as they are.                                           *)

FullOutcome ==
    [outcome |-> Outcome.outcome, length |-> Outcome.length,
     sequence |-> IF Returned THEN SequenceOf(result) ELSE <<>>]

Rerun ==
    /\ Ended
    /\ prev = NoRun
    /\ prev' = FullOutcome
    /\ pc' = "init"
    /\ result' = None
    /\ stack' = <<>>
    /\ UNCHANGED <<puzzle, game, mode, heap, lists, objs, memo, best_solution, last>>

RerunNext == Next \/ Rerun

SpecRerun == Init /\ [][RerunNext]_vars

(* C11: a second run on the same puzzle definition ends as the first did:   *)
(* the same actions in the same order, or no solution both times, from a    *)
(* start vector the first run left alone.                                   *)
SecondRunIdentical ==
    (Ended /\ prev # NoRun) =>
        /\ FullOutcome = prev
        /\ heap[game.start] = puzzle.start

(* A second run that returned a sequence over a round boundary, after a     *)
(* first run that filled its memo table and found a solution                *)
SecondRunReturned ==
    /\ Returned
    /\ prev # NoRun
    /\ prev.outcome = "sequence"
    /\ Len(SequenceOf(result)) > puzzle.actions_per_round
    /\ Cardinality(DOMAIN memo) > 1

----------------------------------------------------------------------------
(* Some kind that actions reward is wanted in a quantity that n rewards of  *)
(* the largest size on offer cannot bring the start vector to.              *)
DemandsMoreThan(n) ==
    \E k \in DOMAIN puzzle.target \cap DOMAIN puzzle.start :
        LET rewards == {puzzle.actions[i].reward[k] :
                           i \in {j \in DOMAIN puzzle.actions :
                                     k \in DOMAIN puzzle.actions[j].reward}}
        IN  /\ rewards # {}
            /\ puzzle.target[k] > puzzle.start[k] + Max(rewards) * n

(* The target names every kind an action rewards, and the start holds every *)
(* kind the target names: the tests of lines 257 and 262 then look up only  *)
(* kinds that are there, and raise nothing.                                 *)
BoundDefined ==
    /\ DOMAIN puzzle.target \subseteq DOMAIN puzzle.start
    /\ \A i \in DOMAIN puzzle.actions :
           DOMAIN puzzle.actions[i].reward \subseteq DOMAIN puzzle.target

(* Under Spec the root is the first object; a child would be the second. *)
RootNotExpanded ==
    /\ Len(objs) <= 1
    /\ \A i \in DOMAIN stack : stack[i].at = "enter"
    /\ result = None

----------------------------------------------------------------------------
(* Game.solve, the greedy construction (lines 216-237), called after the    *)
(* search on the same Game.  Its locals are kept in `last`: the state       *)
(* object, the two loop counters and where the call stands.                 *)

Solving == pc = "solve" /\ last.op = "solve"

SolveLocals(state, round, slot, at, error) ==
    [op |-> "solve", state |-> state, round |-> round, slot |-> slot, at |-> at,
     error |-> error]

(* Where solve stands when a round begins: range(self.rounds) of line 222  *)
(* is empty for rounds <= 0 and line 237 returns; range(actions_per_round)  *)
(* of line 224 is empty for actions_per_round <= 0 and the round goes       *)
(* straight to the test of line 233.                                        *)
RoundStart(round) ==
    IF round >= game.rounds THEN "return"
    ELSE IF game.actions_per_round <= 0 THEN "round_end"
    ELSE "slot"

(* Lines 218-222: a copy of the start dict in a new Resources, wrapped in a *)
(* new GameSequence with an empty list, and into the first round if there   *)
(* is one.  The outcome of the search that ran before goes to prev.         *)
Solve ==
    /\ Ended
    /\ prev = NoRun
    /\ last = NoOp
    /\ prev' = FullOutcome
    /\ LET S == SolveState(Store, game)
       IN  /\ heap' = S.heap
           /\ lists' = S.lists
           /\ objs' = S.objs
           /\ last' = SolveLocals(Len(S.objs), 0, 0, RoundStart(0), "none")
    /\ pc' = "solve"
    /\ UNCHANGED <<puzzle, game, mode, stack, memo, best_solution, result>>

RECURSIVE ScanCase(_, _)
(* The scan of lines 226-230 from action i on, for the dict the state       *)
(* holds.  can_perform_action raises KeyError on a cost kind the dict       *)
(* lacks.  For an applicable action the second operand of line 228 is       *)
(* evaluated: it iterates action.reward, a Resources object, which has no   *)
(* __iter__ and raises TypeError, so lines 229-230 are never reached.  An   *)
(* action that is not applicable is passed over.                            *)
ScanCase(lookup, i) ==
    IF i > Len(Actions) THEN "none"
    ELSE LET action == ActionOf(heap, Actions[i])
         IN  IF KeyMissing(lookup, DOMAIN action.cost) THEN "KeyError"
             ELSE IF can_perform_action(lookup, action) THEN "TypeError"
             ELSE ScanCase(lookup, i + 1)

(* The test of line 231, and of line 233 *)
SolvedCase ==
    LET lookup == LookupOf(last.state)
    IN  IF KeyMissing(lookup, DOMAIN heap[game.target]) THEN "KeyError"
        ELSE IF is_solved(lookup, heap[game.target]) THEN "solved"
        ELSE "idle"

(* One move slot: the scan, then the test of line 231 *)
SlotCase ==
    LET scan == ScanCase(LookupOf(last.state), 1)
    IN  IF scan # "none" THEN scan ELSE SolvedCase

(* Where solve stands: in a move slot, or, the slots of the round done (or  *)
(* none to do), at line 233                                                 *)
StandCase ==
    IF last.at = "slot" THEN SlotCase
    ELSE IF last.at = "round_end" THEN SolvedCase
    ELSE "none"

(* Line 228, 231 or 233 raises *)
SolveSlotRaises ==
    /\ Solving
    /\ StandCase \in {"KeyError", "TypeError"}
    /\ last' = [last EXCEPT !.error = StandCase, !.at = "done"]
    /\ pc' = "solve_raised"
    /\ UNCHANGED <<puzzle, game, mode, heap, lists, objs, stack, memo, best_solution, result, prev>>

(* Lines 231-234, 237: the state is solved, the loops break, the list is    *)
(* returned                                                                 *)
SolveSolved ==
    /\ Solving
    /\ StandCase = "solved"
    /\ last' = [last EXCEPT !.at = "done"]
    /\ pc' = "solve_returned"
    /\ UNCHANGED <<puzzle, game, mode, heap, lists, objs, stack, memo, best_solution, result, prev>>

(* No action taken and not solved: the next slot, or the end of the round *)
SolveSlotIdle ==
    /\ Solving /\ last.at = "slot"
    /\ SlotCase = "idle"
    /\ last' = IF last.slot + 1 < game.actions_per_round
                   THEN [last EXCEPT !.slot = @ + 1]
                   ELSE [last EXCEPT !.at = "round_end"]
    /\ UNCHANGED <<puzzle, game, mode, heap, lists, objs, stack, memo, best_solution, result, prev, pc>>

(* Lines 233-236 with the state unsolved: advance_round on the state's      *)
(* Resources, then the next round if there is one                           *)
SolveRoundEnd ==
    /\ Solving /\ last.at = "round_end"
    /\ SolvedCase = "idle"
    /\ heap' = advance_round(game, Store, objs[last.state].resources).heap
    /\ last' = [last EXCEPT !.round = @ + 1, !.slot = 0, !.at = RoundStart(last.round + 1)]
    /\ UNCHANGED <<puzzle, game, mode, lists, objs, stack, memo, best_solution, result, prev, pc>>

(* Line 237 after the last round *)
SolveReturn ==
    /\ Solving /\ last.at = "return"
    /\ last' = [last EXCEPT !.at = "done"]
    /\ pc' = "solve_returned"
    /\ UNCHANGED <<puzzle, game, mode, heap, lists, objs, stack, memo, best_solution, result, prev>>

(* Starts that already hold the cargo a target asks for *)
SolvedStarts == {Dict(<< <<Kind_P, 0>>, <<Kind_A, a>>, <<Kind_C, MaxTarget>>, <<Kind_H, 0>> >>) : a \in 0..MaxStart}

GreedyFamily ==
    Family \cup {Puzzle(r, n, s, t, l) : r \in 1..MaxRounds, n \in 1..MaxPerRound,
                                         s \in SolvedStarts, t \in TargetVectors,
                                         l \in ActionLists}

GreedyInit ==
    /\ \E p \in GreedyFamily : Constructed(p)
    /\ pc = "init"

GreedyNext ==
    \/ Next
    \/ Solve
    \/ SolveSlotRaises
    \/ SolveSolved
    \/ SolveSlotIdle
    \/ SolveRoundEnd
    \/ SolveReturn

SpecGreedy == GreedyInit /\ [][GreedyNext]_vars

SolveEnded == pc \in {"solve_returned", "solve_raised"}

SolveSequence == SequenceOf(last.state)

(* C14: solve returns a valid sequence: it returns (raising nothing), at    *)
(* most rounds * actions_per_round actions, each applicable when it was     *)
(* committed in a replay with advance_round at each round boundary, and the *)
(* target is met by no proper prefix that another action follows.           *)
SolveReturnsValidSequence ==
    SolveEnded =>
        /\ pc = "solve_returned"
        /\ Len(SolveSequence) <= Budget
        /\ ReplayApplicable(SolveSequence)
        /\ \A n \in 0..(Len(SolveSequence) - 1) :
               ~is_solved(Replay(SolveSequence, n), puzzle.target)

(* C13: where the search returns a sequence, solve returns one that is at   *)
(* least as long.  (The search is the one of the file: line 249 applies its *)
(* power clause in every run.)                                              *)
SearchNoLongerThanGreedy ==
    (SolveEnded /\ prev.outcome = "sequence") =>
        /\ pc = "solve_returned"
        /\ prev.length <= Len(SolveSequence)

----------------------------------------------------------------------------
(* The rounds a state of m moves has behind it *)
RoundsBehind(m) == m \div puzzle.actions_per_round

(* C15: every state backtrack is called on, from the call on (so before it *)
(* is tested for being solved), holds the replay of its history with        *)
(* advance_round applied after each move whose count is a non-zero multiple *)
(* of actions_per_round and nowhere else; the decaying kind H, which no     *)
(* action touches, counts the applications: floor(m / actions_per_round).   *)
AdvancedOncePerRound ==
    \A i \in DOMAIN stack :
        LET o == stack[i].state
            m == Len(SequenceOf(o))
        IN  /\ LookupOf(o) = Replay(SequenceOf(o), m)
            /\ objs[o].moves = m
            /\ Kind_H \in DOMAIN puzzle.start =>
                   LookupOf(o)[Kind_H] = puzzle.start[Kind_H] - 2 * RoundsBehind(m)
            /\ (m > 0 /\ m % puzzle.actions_per_round = 0 /\ Kind_A \in DOMAIN puzzle.start) =>
                   LookupOf(o)[Kind_A] = puzzle.start[Kind_A]

(* A child one move into its second round waits to be tested: one round    *)
(* advanced, the astronauts of the new round partly spent.                  *)
ChildInSecondRound ==
    /\ Entering
    /\ puzzle.actions_per_round = 2
    /\ Len(SequenceOf(Top.state)) = 3
    /\ Kind_H \in DOMAIN puzzle.start
    /\ LookupOf(Top.state)[Kind_H] = puzzle.start[Kind_H] - 2
    /\ LookupOf(Top.state)[Kind_A] < puzzle.start[Kind_A]

----------------------------------------------------------------------------
(* C16: once a best solution is recorded, a step replaces it only by a      *)
(* state with a strictly shorter sequence.                                  *)
BestReplacedOnlyByShorter ==
    [][(best_solution # None /\ best_solution' # best_solution) =>
          /\ best_solution' # None
          /\ Len(lists'[objs'[best_solution'].sequence]) < Len(SequenceOf(best_solution))]_vars

----------------------------------------------------------------------------
(* The search run again on the same Game with the lookup of lines 254-255   *)
(* left out; prev keeps the outcome of the run with it, and the number of   *)
(* states that run made.                                                    *)
MemoOutcome ==
    [outcome |-> Outcome.outcome, length |-> Outcome.length, explored |-> Len(objs)]

RerunWithoutLookup ==
    /\ Ended
    /\ prev = NoRun
    /\ prev' = MemoOutcome
    /\ mode' = [mode EXCEPT !.memo = FALSE]
    /\ pc' = "init"
    /\ result' = None
    /\ stack' = <<>>
    /\ UNCHANGED <<puzzle, game, heap, lists, objs, memo, best_solution, last>>

MemoNext == Next \/ RerunWithoutLookup

(* A small instance in which a lookup hands back a solution, the lookup     *)
(* saves work, and the sequence returned crosses a round boundary           *)
MemoPuzzle ==
    Puzzle(2, 3, Dict(<< <<Kind_P, 2>>, <<Kind_A, 1>>, <<Kind_C, 0>>, <<Kind_H, 0>> >>), Dict(<< <<Kind_A, 2>>, <<Kind_C, 3>> >>),
           << Act(<< <<Kind_A, 1>> >>, << <<Kind_C, 1>> >>), Act(<< <<Kind_P, 1>> >>, << <<Kind_C, 3>> >>),
              Act(<< <<Kind_C, 1>> >>, << <<Kind_A, 1>> >>) >>)

(* The instances of the family in which the search branches most: action   *)
(* lists of full length, and a start that holds both power and astronauts.  *)
(* A search over fewer applicable actions meets fewer keys twice.           *)
MemoFamily ==
    {Puzzle(r, n, s, t, l) : r \in 1..MaxRounds, n \in 1..MaxPerRound,
                             s \in {v \in StartVectors : v[Kind_P] >= 1 /\ v[Kind_A] >= 1},
                             t \in TargetVectors,
                             l \in {x \in ActionLists : Len(x) = MaxActions}}

MemoInit ==
    /\ \E p \in MemoFamily \cup {MemoPuzzle} : Constructed(p)
    /\ pc = "init"

SpecMemo == MemoInit /\ [][MemoNext]_vars

(* C17: the key (remaining moves, sorted vector) identifies a state up to   *)
(* its future: the remaining moves fix the move count, and with it the      *)
(* round boundaries; where a lookup hands back a solution, the state that   *)
(* looked it up has a continuation of applicable actions to the target that *)
(* makes a sequence no longer than that solution; and the search with the   *)
(* lookup ends as the search without it: the same length, or None both      *)
(* times, or KeyError both times.                                           *)
MemoKeepsOutcome ==
    /\ \A i \in DOMAIN stack :
           stack[i].remaining_rounds + Len(SequenceOf(stack[i].state)) = Budget
    /\ (Entering /\ EntryCase(Top) = "memo") =>
           LET v == memo[hashed_state(Top.remaining_rounds, LookupOf(Top.state))]
               m == Len(SequenceOf(Top.state))
           IN  v # None =>
                   /\ Len(SequenceOf(v)) >= m
                   /\ SolvableWithin(LookupOf(Top.state), m, Len(SequenceOf(v)) - m)
    /\ (Ended /\ prev # NoRun) =>
           /\ Outcome.outcome = prev.outcome
           /\ Outcome.length = prev.length

(* Both runs returned a sequence over a round boundary, and the run without *)
(* the lookup made more states than the run with it                         *)
LookupSavedWork ==
    /\ Returned /\ prev # NoRun /\ prev.outcome = "sequence"
    /\ prev.length > puzzle.actions_per_round
    /\ Len(objs) - prev.explored > prev.explored

----------------------------------------------------------------------------
(* The catalogue as Game(...) lists it: the actions of the puzzle, sorted *)
Catalogue ==
    LET S == CallerStore(puzzle)
    IN  ActionsOf(S.heap, SortedByRating(S.heap, CallerActions(puzzle)))

(* C18: no step of the search changes a Resources dict, a list or a state   *)
(* object that existed before the step (the vector and the history of the   *)
(* parent, of the siblings, of the recorded best solution, of the memoized  *)
(* results; the dicts and the list of the puzzle), and after every step the *)
(* Game's start dict, target dict and action list hold what the puzzle      *)
(* gave.                                                                    *)
SearchTouchesOnlyNewState ==
    [][/\ \A r \in DOMAIN heap : r \in DOMAIN heap' /\ heap'[r] = heap[r]
       /\ \A l \in DOMAIN lists : l \in DOMAIN lists' /\ lists'[l] = lists[l]
       /\ \A o \in DOMAIN objs : o \in DOMAIN objs' /\ objs'[o] = objs[o]
       /\ game' = game
       /\ heap'[game'.start] = puzzle.start
       /\ heap'[game'.target] = puzzle.target
       /\ ActionsOf(heap', lists'[game'.actions]) = Catalogue]_vars

(* A child made across a round boundary waits to be tested while its parent *)
(* is in its loop, a best solution is recorded and a solution is memoized   *)
ChildBesideRecordedStates ==
    /\ Entering
    /\ Len(stack) >= 2
    /\ best_solution # None
    /\ \E k \in DOMAIN memo : memo[k] # None
    /\ Len(SequenceOf(Top.state)) % puzzle.actions_per_round = 0
    /\ LookupOf(Top.state) # LookupOf(stack[Len(stack) - 1].state)
    /\ SequenceOf(Top.state) # SequenceOf(stack[Len(stack) - 1].state)
    /\ objs[Top.state].resources \notin
           {objs[o].resources : o \in DOMAIN objs \ {Top.state}} \cup {game.start, game.target}
    /\ objs[Top.state].sequence \notin
           {objs[o].sequence : o \in DOMAIN objs \ {Top.state}} \cup {game.actions}

----------------------------------------------------------------------------
(* The calls under way at any moment: in every call the remaining moves r   *)
(* satisfy 0 <= r <= rounds * actions_per_round and r + (moves in the       *)
(* state's history) = rounds * actions_per_round; each call is handed r - 1 *)
(* by its caller; a call with r = 0 never reaches the loop; the depth stays *)
(* within rounds * actions_per_round + 1 calls; a search under way always   *)
(* has a next step, and none once it has returned or raised.                *)
RecursionBounded ==
    /\ Len(stack) <= Budget + 1
    /\ \A i \in DOMAIN stack :
           /\ stack[i].remaining_rounds \in 0..Budget
           /\ stack[i].remaining_rounds + get_moves(Store, stack[i].state) = Budget
           /\ stack[i].remaining_rounds = Budget - (i - 1)
           /\ i > 1 => stack[i].remaining_rounds = stack[i - 1].remaining_rounds - 1
           /\ stack[i].remaining_rounds = 0 => stack[i].at = "enter"
           /\ i < Len(stack) => stack[i].at = "loop"
    /\ pc \in {"init", "running"} => ENABLED Next
    /\ pc = "running" => stack # <<>>
    /\ Ended => ~ ENABLED Next

(* The search has gone as deep as the budget allows: a call with r = 0 *)
DeepestCall ==
    /\ Entering
    /\ Top.remaining_rounds = 0
    /\ Len(stack) = Budget + 1
    /\ Budget >= 2 * puzzle.actions_per_round
    /\ puzzle.actions_per_round > 1


(* How far a call is from its return: twice the loop positions it has left, *)
(* plus one while it is the innermost call                                  *)
FrameRank(k) ==
    LET f == stack[k]
        j == IF f.at = "enter" THEN 0 ELSE f.i
    IN  2 * (Len(Actions) + 2 - j) + (IF k = Len(stack) THEN 1 ELSE 0)

(* The rank of a moment of the search: the phase of find_min_steps, then    *)
(* the ranks of the calls under way from the outermost in, then zeros       *)
Rank ==
    [k \in 0..(Budget + 1) |->
        IF k = 0 THEN (IF pc = "init" THEN 2 ELSE IF pc = "running" THEN 1 ELSE 0)
        ELSE IF k <= Len(stack) THEN FrameRank(k)
        ELSE 0]

(* a comes before b in the lexicographic order, a well-founded one *)
LexLess(a, b) ==
    \E k \in DOMAIN a : a[k] < b[k] /\ \A j \in DOMAIN a : j < k => a[j] = b[j]

(* C19: find_min_steps always terminates, and its recursion stays within    *)
(* rounds * actions_per_round: 0 <= r <= rounds * actions_per_round and     *)
(* r + moves = rounds * actions_per_round in every call, r - 1 handed to    *)
(* every callee, no recursion from r = 0.  Termination: a search under way  *)
(* always has a next step, and every step lowers a rank in a well-founded   *)
(* order, so no execution goes on for ever.                                 *)
TerminatesWithinBudget ==
    /\ []RecursionBounded
    /\ [][LexLess(Rank', Rank)]_vars

----------------------------------------------------------------------------
(* What simulate_sequence ends with: the Resources of line 214, the None   *)
(* of line 211, or an exception                                             *)
Simulated(is_none, error, lookup) == [is_none |-> is_none, error |-> error, lookup |-> lookup]

RECURSIVE CostCase(_, _, _)
(* Lines 208-211 from the i-th kind of the cost on, in the order the cost   *)
(* dict lists its kinds: line 209 raises KeyError on a kind the dict lacks, *)
(* line 211 returns None on a kind it takes below zero, whichever comes     *)
(* first.                                                                   *)
CostCase(lookup, action, i) ==
    IF i > Len(action.cost_keys) THEN "taken"
    ELSE LET resource == action.cost_keys[i]
         IN  IF resource \notin DOMAIN lookup THEN "KeyError"
             ELSE IF lookup[resource] - action.cost[resource] < 0 THEN "None"
             ELSE CostCase(lookup, action, i + 1)

RECURSIVE SimulateFrom(_, _, _)
(* The loop of Game.simulate_sequence (lines 204-214) over the actions left *)
(* in seq.  round is set to 0 at line 202 and no line changes it, so the    *)
(* test of line 205 sees 0 at every action: its % raises ZeroDivisionError  *)
(* when actions_per_round is 0.                                             *)
SimulateFrom(current_resources, round, seq) ==
    IF seq = <<>> THEN Simulated(FALSE, "none", current_resources)
    ELSE IF game.actions_per_round = 0 THEN Simulated(FALSE, "ZeroDivisionError", <<>>)
    ELSE IF /\ PyMod(round, game.actions_per_round) = 0 /\ round # 0
            /\ Kind_A \in DOMAIN current_resources /\ Kind_A \notin DOMAIN heap[game.start]
        THEN Simulated(FALSE, "KeyError", <<>>)
    ELSE LET action   == Head(seq)
             advanced == IF PyMod(round, game.actions_per_round) = 0 /\ round # 0
                             THEN AdvancedLookup(current_resources, heap[game.start])
                             ELSE current_resources
             cost     == CostCase(advanced, action, 1)
         IN  IF cost = "KeyError" THEN Simulated(FALSE, "KeyError", <<>>)
             ELSE IF cost = "None" THEN Simulated(TRUE, "none", <<>>)
             ELSE IF KeyMissing(advanced, DOMAIN action.reward)
                 THEN Simulated(FALSE, "KeyError", <<>>)
             ELSE SimulateFrom(AddReward(SubtractCost(advanced, action.cost), action.reward),
                               round, Tail(seq))

(* Game.simulate_sequence on a GameSequence: a copy of the start dict, then *)
(* the loop                                                                 *)
simulate_sequence(sequence) == SimulateFrom(heap[game.start], 0, SequenceOf(sequence))

(* C20: for every solution find_min_steps returns, simulate_sequence gives  *)
(* a vector, not None, equal kind by kind to the one the solution holds.    *)
SimulationAgreesWithSearch ==
    Returned =>
        /\ simulate_sequence(result).error = "none"
        /\ ~ simulate_sequence(result).is_none
        /\ simulate_sequence(result).lookup = LookupOf(result)

====
